---- MODULE Spec2Model ----
(***************************************************************************)
(* Model of package cachestore (src/cachestore.go): a process-wide         *)
(* sync.Map from key to *item, an atomically accessed disable flag, and    *)
(* the operations Set, Get, GetStale, Delete, DeleteTag, Clear, GC and     *)
(* RunGCInterval; and of the Set and DeleteTag of the non-generic variant  *)
(* of the package (src/unnamed/part_000).                                  *)
(*                                                                         *)
(* Time: a time.Time is a natural number; 0 is the zero time.Time          *)
(* (IsZero), and the clock `now` starts at 1 and only moves forward.       *)
(* A Go value is a record [type, v]: its dynamic type and its payload;     *)
(* v = 0 is the zero value of the type.                                    *)
(* A pointer that may be nil (to a SetOptions or an item) is a sequence of *)
(* length 0 (nil) or 1.                                                    *)
(*                                                                         *)
(* Each function of the package is split at its accesses to shared state   *)
(* (the flag, the clock, the map), so that the steps of concurrent calls   *)
(* interleave as they can in the program.  Spec runs the calls of one      *)
(* goroutine (one call at a time, the clock advancing at any step);        *)
(* SpecConc runs a Set goroutine and a scanning goroutine (DeleteTag,      *)
(* Clear or GC) concurrently; SpecKey runs a Set, a read and a Delete      *)
(* goroutine on one key; SpecSweep runs RunGCInterval with its ticker and  *)
(* its caller beside a Set goroutine, under fairness; SpecV0 runs the Set  *)
(* and DeleteTag of part_000.                                              *)
(***************************************************************************)
EXTENDS Naturals, Integers, FiniteSets, Sequences, TLC

\* ---------------------------------------------------------------- bounds

\* The clock readings are 1..MaxClock.
MaxClock == 3

\* Under SpecConc the clock readings are 1..MaxClockConc.
MaxClockConc == 2

\* The TTLs passed in SetOptions are 0..MaxTTL.
MaxTTL == 1

\* The GC passes RunGCInterval begins after the cancellation are counted up
\* to MaxAfter.
MaxAfter == 2

Keys == {"a", "b"}

Tags == {"", "t"}

Types == {"int", "string"}

\* The values callers store: two ints.
Vals == {[type |-> "int", v |-> 1], [type |-> "int", v |-> 2]}

\* *new(T): the zero value of type T.
Zero(T) == [type |-> T, v |-> 0]

\* opt *SetOptions: nil, or a pointer to {Tag, TTL}.
NilOpt == << >>

Opts == {NilOpt} \cup {<<[Tag |-> tg, TTL |-> d]>> : tg \in Tags, d \in 0..MaxTTL}

VARIABLES
    disabled,   \* var disabled uint32, as a boolean
    store,      \* var store sync.Map: a function from the keys present to items
    now,        \* the reading time.Now() returns
    setter,     \* the frame of the Set call in progress
    scan,       \* the frame of the DeleteTag, Clear or GC call in progress
    reader,     \* the frame of the Get or GetStale call in progress
    deleter,    \* the frame of the Delete call in progress
    sweep       \* RunGCInterval: its position, its context and its ticker

vars == <<disabled, store, now, setter, scan, reader, deleter, sweep>>

\* ------------------------------------------------------------ time.Time

IsZero(t) == t = 0

After(t, u) == t > u

Add(t, d) == t + d

\* ------------------------------------------------------------ the flag

\* Faulty variant: the flag is never seen set.
isDisabledNever == FALSE

isDisabled == disabled

\* ------------------------------------------------------------- item

\* Faulty variant: expired from the deadline on, not strictly after it.
ExpiredAtDeadline(it, t) ==
    IF IsZero(it.expiresAt) THEN FALSE ELSE t >= it.expiresAt

\* Faulty variant: the zero expiresAt is compared like any other.
ExpiredNoZeroCheck(it, t) == After(t, it.expiresAt)

\* it.Expired() evaluated when time.Now() reads t.
Expired(it, t) ==
    IF IsZero(it.expiresAt) THEN FALSE ELSE After(t, it.expiresAt)

CreateAfter(it, t) == After(it.createdAt, t)

\* Faulty variant: expiresAt is set also when opt is nil (with a zero TTL).
NewItemAlwaysExpires(value, opt, t) ==
    [data      |-> value,
     createdAt |-> t,
     tag       |-> IF opt # NilOpt THEN opt[1].Tag ELSE "",
     expiresAt |-> Add(t, IF opt # NilOpt THEN opt[1].TTL ELSE 0),
     opt       |-> opt]

\* The item Set builds at clock reading t.  The field opt is history only:
\* the options the item was built from, which no operation reads.
NewItem(value, opt, t) ==
    [data      |-> value,
     createdAt |-> t,
     tag       |-> IF opt # NilOpt THEN opt[1].Tag ELSE "",
     expiresAt |-> IF opt # NilOpt THEN Add(t, opt[1].TTL) ELSE 0,
     opt       |-> opt]

\* ------------------------------------------------------------ sync.Map

Load(m, key) == IF key \in DOMAIN m THEN <<m[key]>> ELSE << >>

\* Faulty variant: LoadOrStore, which keeps the item a key already holds.
StoreIfAbsent(m, key, it) ==
    [x \in DOMAIN m \cup {key} |-> IF x \in DOMAIN m THEN m[x] ELSE it]

\* Faulty variant: the fields of the item a key holds are updated in place,
\* and the deadline of the old item is left.
StoreMerge(m, key, it) ==
    [x \in DOMAIN m \cup {key} |->
        IF x # key THEN m[x]
        ELSE IF key \in DOMAIN m THEN [it EXCEPT !.expiresAt = m[key].expiresAt]
        ELSE it]

Store(m, key, it) ==
    [x \in DOMAIN m \cup {key} |-> IF x = key THEN it ELSE m[x]]

\* Faulty variant: the delete empties the map.
MapDeleteAll(m, key) == << >>

MapDelete(m, key) == [x \in DOMAIN m \ {key} |-> m[x]]

\* ------------------------------------------------------------ frames

\* The field old is history only: the entry that Set's store.Store replaced.
SetterIdle == [pc |-> "idle", key |-> "", it |-> << >>, old |-> << >>]

ScanIdle == [pc |-> "idle", op |-> "", tag |-> "", t |-> 0, todo |-> {}, key |-> ""]

ReaderIdle == [pc |-> "idle", op |-> "", T |-> "", key |-> "", it |-> << >>,
               ret |-> << >>]

\* The field old is history only: the entry that store.Delete removed.
DeleterIdle == [pc |-> "idle", key |-> "", old |-> << >>]

\* RunGCInterval has not been called: pc is its position, done says that
\* ctx.Done() is closed, tick that the ticker's channel t.C holds a tick.
\* The field after is history only: the GC passes begun after ctx.Done()
\* was closed, counted up to MaxAfter.
SweepIdle == [pc |-> "idle", done |-> FALSE, tick |-> FALSE, after |-> 0]

\* No call is in progress.
Quiet ==
    /\ setter = SetterIdle /\ scan = ScanIdle /\ reader = ReaderIdle
    /\ deleter = DeleterIdle

Init ==
    /\ disabled = FALSE
    /\ store = << >>
    /\ now = 1
    /\ setter = SetterIdle
    /\ scan = ScanIdle
    /\ reader = ReaderIdle
    /\ deleter = DeleterIdle
    /\ sweep = SweepIdle

\* ------------------------------------------------------------ the clock

Tick ==
    /\ now < MaxClock
    /\ now' = now + 1
    /\ UNCHANGED <<disabled, store, setter, scan, reader, deleter, sweep>>

\* ------------------------------------------------------------ SetDisable

\* Faulty variant: disabling also empties the mapping.
SetDisableClears(value) ==
    /\ disabled' = value
    /\ store' = IF value THEN << >> ELSE store
    /\ UNCHANGED <<now, setter, scan, reader, deleter, sweep>>

SetDisable(value) ==
    /\ disabled' = value
    /\ UNCHANGED <<store, now, setter, scan, reader, deleter, sweep>>

\* ------------------------------------------------------------ Set

\* Lines 50-61: the flag is read; when it is set the call returns, else the
\* item is built with createdAt := time.Now().  Both reads are one step: the
\* item is private to the call until store.Store, the next step.
SetBegin(key, value, opt) ==
    /\ setter.pc = "idle"
    /\ setter' = IF isDisabled
                 THEN [pc |-> "skip", key |-> key, it |-> << >>, old |-> << >>]
                 ELSE [pc |-> "store", key |-> key, it |-> <<NewItem(value, opt, now)>>,
                       old |-> << >>]
    /\ UNCHANGED <<disabled, store, now, scan, reader, deleter, sweep>>

\* Line 51: the return of a Set that found the flag set.
SetSkip ==
    /\ setter.pc = "skip"
    /\ setter' = SetterIdle
    /\ UNCHANGED <<disabled, store, now, scan, reader, deleter, sweep>>

\* Line 62: store.Store(key, &it).
SetStore ==
    /\ setter.pc = "store"
    /\ store' = Store(store, setter.key, setter.it[1])
    /\ setter' = [pc |-> "done", key |-> setter.key, it |-> << >>,
                  old |-> Load(store, setter.key)]
    /\ UNCHANGED <<disabled, now, scan, reader, deleter, sweep>>

\* Line 63: Set returns.
SetReturn ==
    /\ setter.pc = "done"
    /\ setter' = SetterIdle
    /\ UNCHANGED <<disabled, store, now, scan, reader, deleter, sweep>>

\* ------------------------------------------------------------ Get, GetStale

NotFound(T) == [found |-> FALSE, value |-> Zero(T), panic |-> FALSE]

\* it.data.(T), true: the one-result type assertion panics on another type.
Assert_T(it, T) ==
    IF it.data.type = T
    THEN [found |-> TRUE, value |-> it.data, panic |-> FALSE]
    ELSE [found |-> FALSE, value |-> Zero(T), panic |-> TRUE]

\* Lines 66-68 and 82-84: the flag is read.
ReadBegin(op, T, key) ==
    /\ reader.pc = "idle"
    /\ reader' = IF isDisabled
                 THEN [pc |-> "return", op |-> op, T |-> T, key |-> key,
                       it |-> << >>, ret |-> <<NotFound(T)>>]
                 ELSE [pc |-> "load", op |-> op, T |-> T, key |-> key,
                       it |-> << >>, ret |-> << >>]
    /\ UNCHANGED <<disabled, store, now, setter, scan, deleter, sweep>>

\* Lines 70-74 and 86-91: store.Load(key); GetStale returns what it loaded.
ReadLoad ==
    /\ reader.pc = "load"
    /\ LET l == Load(store, reader.key) IN
        reader' =
            IF l = << >>
            THEN [reader EXCEPT !.pc = "return", !.ret = <<NotFound(reader.T)>>]
            ELSE IF reader.op = "GetStale"
            THEN [reader EXCEPT !.pc = "return", !.it = l,
                                !.ret = <<Assert_T(l[1], reader.T)>>]
            ELSE [reader EXCEPT !.pc = "check", !.it = l]
    /\ UNCHANGED <<disabled, store, now, setter, scan, deleter, sweep>>

\* Faulty variant: Get evicts the expired item it has found.
GetCheckEvicts ==
    /\ reader.pc = "check"
    /\ IF Expired(reader.it[1], now)
       THEN /\ reader' = [reader EXCEPT !.pc = "return", !.ret = <<NotFound(reader.T)>>]
            /\ store' = MapDelete(store, reader.key)
       ELSE /\ reader' = [reader EXCEPT !.pc = "return", !.ret = <<Assert_T(reader.it[1], reader.T)>>]
            /\ store' = store
    /\ UNCHANGED <<disabled, now, setter, scan, deleter, sweep>>

\* Lines 75-78: Get's it.Expired(), which reads the clock, and the result.
GetCheck ==
    /\ reader.pc = "check"
    /\ reader' =
        [reader EXCEPT !.pc = "return",
                       !.ret = IF Expired(reader.it[1], now)
                               THEN <<NotFound(reader.T)>>
                               ELSE <<Assert_T(reader.it[1], reader.T)>>]
    /\ UNCHANGED <<disabled, store, now, setter, scan, deleter, sweep>>

\* The caller takes the result (or the panic unwinds the call).
ReadReturn ==
    /\ reader.pc = "return"
    /\ reader' = ReaderIdle
    /\ UNCHANGED <<disabled, store, now, setter, scan, deleter, sweep>>

\* Lines 65-92 run without interruption at the current clock reading: the
\* result of Get[T](key) or GetStale[T](key) called in this state.
ReadResult(op, T, key) ==
    IF isDisabled THEN NotFound(T)
    ELSE LET l == Load(store, key) IN
         IF l = << >> THEN NotFound(T)
         ELSE IF op = "Get" /\ Expired(l[1], now) THEN NotFound(T)
         ELSE Assert_T(l[1], T)

\* ------------------------------------------------------------ Delete

\* Faulty variant: Delete does nothing while the store is disabled.
DeleteGated(key) ==
    /\ deleter.pc = "idle"
    /\ store' = IF isDisabled THEN store ELSE MapDelete(store, key)
    /\ deleter' = [pc |-> "done", key |-> key, old |-> Load(store, key)]
    /\ UNCHANGED <<disabled, now, setter, scan, reader, sweep>>

\* Line 95: store.Delete(key).
Delete(key) ==
    /\ deleter.pc = "idle"
    /\ store' = MapDelete(store, key)
    /\ deleter' = [pc |-> "done", key |-> key, old |-> Load(store, key)]
    /\ UNCHANGED <<disabled, now, setter, scan, reader, sweep>>

\* Line 96: Delete returns.
DeleteReturn ==
    /\ deleter.pc = "done"
    /\ deleter' = DeleterIdle
    /\ UNCHANGED <<disabled, store, now, setter, scan, reader, sweep>>

\* ------------------------------------------------------------ DeleteTag, Clear, GC

\* Lines 99 and 113: t := time.Now(), then store.Range.  Range visits each
\* key at most once, in any order; a key absent when its turn comes is not
\* visited.
DeleteTagBegin(tag) ==
    /\ scan.pc = "idle"
    /\ scan' = [pc |-> "range", op |-> "DeleteTag", tag |-> tag, t |-> now,
                todo |-> Keys, key |-> ""]
    /\ UNCHANGED <<disabled, store, now, setter, reader, deleter, sweep>>

ClearBegin ==
    /\ scan.pc = "idle"
    /\ scan' = [pc |-> "range", op |-> "Clear", tag |-> "", t |-> now,
                todo |-> Keys, key |-> ""]
    /\ UNCHANGED <<disabled, store, now, setter, reader, deleter, sweep>>

\* The frame of a GC call that begins.  GC reads the clock only in its
\* callback: here t is history only, the clock reading when the pass began.
GCFrame ==
    [pc |-> "range", op |-> "GC", tag |-> "", t |-> now, todo |-> Keys, key |-> ""]

GCBegin ==
    /\ scan.pc = "idle"
    /\ scan' = GCFrame
    /\ UNCHANGED <<disabled, store, now, setter, reader, deleter, sweep>>

\* Faulty variant: the guard is inverted, and only newer items are deleted.
DeleteTagHitsInverted(it, tag, t) ==
    IF ~CreateAfter(it, t) THEN FALSE ELSE it.tag = tag

\* Lines 102-105: DeleteTag's callback decides to delete the key of `it`.
DeleteTagHits(it, tag, t) ==
    IF CreateAfter(it, t) THEN FALSE ELSE it.tag = tag

\* Lines 116-119: Clear's callback decides to delete the key of `it`.
ClearHits(it, t) ==
    IF CreateAfter(it, t) THEN FALSE ELSE TRUE

\* Faulty variant: the age of the item decides, not its expiry.
GCHitsCreated(it, t) == After(t, it.createdAt)

\* Faulty variant: GC deletes every key it visits.
GCHitsAll(it, t) == TRUE

\* Line 127: GC's callback decides to delete the key of `it`.
GCHits(it, t) == Expired(it, t)

\* The callback's decision on the item Range passed it.
Hits(it) ==
    CASE scan.op = "DeleteTag" -> DeleteTagHits(it, scan.tag, scan.t)
      [] scan.op = "Clear"     -> ClearHits(it, scan.t)
      [] OTHER                 -> GCHits(it, now)

\* Range passes the callback the key and the item it holds now; the callback
\* runs up to its store.Delete(key).  The callback reads only the item it
\* was passed and, in GC, the clock, which this step reads as well: the
\* store.Delete that follows is a step of its own, so other goroutines run
\* between the decision and the delete.
ScanVisit(key) ==
    /\ scan.pc = "range"
    /\ key \in scan.todo
    /\ LET l == Load(store, key) IN
        scan' = IF l # << >> /\ Hits(l[1])
                THEN [scan EXCEPT !.pc = "delete", !.key = key]
                ELSE [scan EXCEPT !.todo = @ \ {key}]
    /\ UNCHANGED <<disabled, store, now, setter, reader, deleter, sweep>>

\* Lines 106, 119 and 128: store.Delete(key), on whatever the key holds now.
ScanDelete ==
    /\ scan.pc = "delete"
    /\ store' = MapDelete(store, scan.key)
    /\ scan' = [scan EXCEPT !.pc = "range", !.key = "", !.todo = @ \ {scan.key}]
    /\ UNCHANGED <<disabled, now, setter, reader, deleter, sweep>>

\* Range has visited every key: the call returns.
ScanReturn ==
    /\ scan.pc = "range"
    /\ scan.todo = {}
    /\ scan' = ScanIdle
    /\ UNCHANGED <<disabled, store, now, setter, reader, deleter, sweep>>

\* ------------------------------------------------- src/unnamed/part_000

\* The non-generic variant of the package has no flag.  Its Set (part_000
\* lines 34-44) builds the item as Set does and stores it with the same
\* store.Store, the steps SetStore and SetReturn.
V0_SetBegin(key, value, opt) ==
    /\ setter.pc = "idle"
    /\ setter' = [pc |-> "store", key |-> key, it |-> <<NewItem(value, opt, now)>>,
                  old |-> << >>]
    /\ UNCHANGED <<disabled, store, now, scan, reader, deleter, sweep>>

\* part_000 lines 63-64: t := time.Now(), then store.Range.
V0_DeleteTagBegin(tag) ==
    /\ scan.pc = "idle"
    /\ scan' = [pc |-> "range", op |-> "DeleteTagV0", tag |-> tag, t |-> now,
                todo |-> Keys, key |-> ""]
    /\ UNCHANGED <<disabled, store, now, setter, reader, deleter, sweep>>

\* part_000 lines 65-71: the callback returns early on !it.CreateAfter(t)
\* and otherwise deletes the key of an item with the tag.
V0_DeleteTagHits(it, tag, t) ==
    IF ~CreateAfter(it, t) THEN FALSE ELSE it.tag = tag

\* part_000 lines 64-69: Range passes the callback a key and its item; the
\* callback runs up to its store.Delete(key), the step ScanDelete.
V0_ScanVisit(key) ==
    /\ scan.pc = "range"
    /\ key \in scan.todo
    /\ LET l == Load(store, key) IN
        scan' = IF l # << >> /\ V0_DeleteTagHits(l[1], scan.tag, scan.t)
                THEN [scan EXCEPT !.pc = "delete", !.key = key]
                ELSE [scan EXCEPT !.todo = @ \ {key}]
    /\ UNCHANGED <<disabled, store, now, setter, reader, deleter, sweep>>

\* ------------------------------------------------------------ RunGCInterval

\* The intervals RunGCInterval is called with.
Intervals == -1 .. 1

\* Lines 135-141: a non-positive d returns at once; otherwise the ticker is
\* created and the loop waits in its select.
RunGCInterval(d) ==
    /\ sweep.pc = "idle"
    /\ sweep' = [sweep EXCEPT !.pc = IF d <= 0 THEN "returned" ELSE "select"]
    /\ UNCHANGED <<disabled, store, now, setter, scan, reader, deleter>>

\* The caller cancels ctx: ctx.Done() is closed, at any time.
Cancel ==
    /\ ~sweep.done
    /\ sweep' = [sweep EXCEPT !.done = TRUE]
    /\ UNCHANGED <<disabled, store, now, setter, scan, reader, deleter>>

\* The ticker, running from line 138 until the deferred t.Stop(), sends on
\* t.C, a channel of capacity one; a tick that finds it full is dropped.
TickerFire ==
    /\ sweep.pc \in {"select", "gc"}
    /\ ~sweep.tick
    /\ sweep' = [sweep EXCEPT !.tick = TRUE]
    /\ UNCHANGED <<disabled, store, now, setter, scan, reader, deleter>>

\* Faulty variant: the loop goes on after the cancellation.
SweepSelectDoneContinues ==
    /\ sweep.pc = "select"
    /\ sweep.done
    /\ UNCHANGED vars

\* Lines 142-143: select takes case <-ctx.Done() and the function returns;
\* the deferred t.Stop() stops the ticker.
SweepSelectDone ==
    /\ sweep.pc = "select"
    /\ sweep.done
    /\ sweep' = [sweep EXCEPT !.pc = "returned"]
    /\ UNCHANGED <<disabled, store, now, setter, scan, reader, deleter>>

\* Lines 144-145: select takes case <-t.C, which empties the channel, and
\* GC() is called.  When both cases are ready select takes either.  The
\* field after is history only: the GC passes begun after the cancellation.
SweepSelectTick ==
    /\ sweep.pc = "select"
    /\ sweep.tick
    /\ scan.pc = "idle"
    /\ scan' = GCFrame
    /\ sweep' = [sweep EXCEPT !.pc = "gc", !.tick = FALSE,
                              !.after = IF sweep.done /\ @ < MaxAfter THEN @ + 1 ELSE @]
    /\ UNCHANGED <<disabled, store, now, setter, reader, deleter>>

\* Lines 145 and 140-141: GC() returns and the loop is back at its select.
SweepGCReturn ==
    /\ sweep.pc = "gc"
    /\ scan.pc = "range"
    /\ scan.todo = {}
    /\ scan' = ScanIdle
    /\ sweep' = [sweep EXCEPT !.pc = "select"]
    /\ UNCHANGED <<disabled, store, now, setter, reader, deleter>>

\* ------------------------------------------------------------ specifications

\* One goroutine: a call begins only when no call is in progress.
Next ==
    \/ Tick
    \/ \E value \in BOOLEAN : Quiet /\ SetDisable(value)
    \/ \E key \in Keys, value \in Vals, opt \in Opts : Quiet /\ SetBegin(key, value, opt)
    \/ SetSkip
    \/ SetStore
    \/ SetReturn
    \/ \E op \in {"Get", "GetStale"}, T \in Types, key \in Keys :
            Quiet /\ ReadBegin(op, T, key)
    \/ ReadLoad
    \/ GetCheck
    \/ ReadReturn
    \/ \E key \in Keys : Quiet /\ Delete(key)
    \/ DeleteReturn
    \/ \E tag \in Tags : Quiet /\ DeleteTagBegin(tag)
    \/ Quiet /\ ClearBegin
    \/ Quiet /\ GCBegin
    \/ \E key \in Keys : ScanVisit(key)
    \/ ScanDelete
    \/ ScanReturn

Spec == Init /\ [][Next]_vars

\* Goroutines: Set calls and scanning calls run concurrently.
NextConc ==
    \/ now < MaxClockConc /\ Tick
    \/ \E key \in Keys, value \in Vals, opt \in Opts : SetBegin(key, value, opt)
    \/ SetStore
    \/ SetReturn
    \/ \E tag \in Tags : DeleteTagBegin(tag)
    \/ ClearBegin
    \/ GCBegin
    \/ \E key \in Keys : ScanVisit(key)
    \/ ScanDelete
    \/ ScanReturn

SpecConc == Init /\ [][NextConc]_vars

\* The entries the sweep runs over hold one value and are set with a TTL.
SweepVals == {[type |-> "int", v |-> 1]}

SweepOpts == {<<[Tag |-> "", TTL |-> MaxTTL]>>}

\* RunGCInterval in its goroutine, its caller, who may cancel, the ticker,
\* and a goroutine that calls Set.
NextSweep ==
    \/ Tick
    \/ \E key \in Keys, value \in SweepVals, opt \in SweepOpts : SetBegin(key, value, opt)
    \/ SetStore
    \/ SetReturn
    \/ \E d \in Intervals : RunGCInterval(d)
    \/ Cancel
    \/ TickerFire
    \/ SweepSelectDone
    \/ SweepSelectTick
    \/ \E key \in Keys : ScanVisit(key)
    \/ ScanDelete
    \/ SweepGCReturn

\* Fairness: a GC pass that can take a step takes one, and the select, which
\* chooses at random among its ready cases, does not pass over the ready
\* case <-ctx.Done() forever.
SpecSweep ==
    /\ Init
    /\ [][NextSweep]_vars
    /\ WF_vars(\E key \in Keys : ScanVisit(key))
    /\ WF_vars(ScanDelete)
    /\ WF_vars(SweepGCReturn)
    /\ SF_vars(SweepSelectDone)

\* The key the concurrent calls of SpecKey contend for.
OneKey == {"a"}

\* Goroutines: a Set call, a Get or GetStale call and a Delete call, all on
\* one key, run concurrently.
NextKey ==
    \/ now < MaxClockConc /\ Tick
    \/ \E key \in OneKey, value \in Vals, opt \in Opts : SetBegin(key, value, opt)
    \/ SetStore
    \/ SetReturn
    \/ \E op \in {"Get", "GetStale"}, key \in OneKey : ReadBegin(op, "int", key)
    \/ ReadLoad
    \/ GetCheck
    \/ ReadReturn
    \/ \E key \in OneKey : Delete(key)
    \/ DeleteReturn

SpecKey == Init /\ [][NextKey]_vars

\* The variant of part_000: a goroutine that calls Set and a goroutine that
\* calls DeleteTag, here when no Set is in progress; a Set may begin while
\* DeleteTag runs.
NextV0 ==
    \/ now < MaxClockConc /\ Tick
    \/ \E key \in Keys, value \in Vals, opt \in Opts : V0_SetBegin(key, value, opt)
    \/ SetStore
    \/ SetReturn
    \/ \E tag \in Tags : setter = SetterIdle /\ V0_DeleteTagBegin(tag)
    \/ \E key \in Keys : V0_ScanVisit(key)
    \/ ScanDelete
    \/ ScanReturn

SpecV0 == Init /\ [][NextV0]_vars

\* ------------------------------------------------------------ steps, by name

\* The step is the store.Delete(key) of a running `op` callback.
ScanDeleteStep(op) == scan.op = op /\ scan.pc = "delete" /\ scan'.pc = "range"

\* The running `op` call has visited every key and is about to return.
ScanDone(op) == scan.op = op /\ scan.pc = "range" /\ scan.todo = {}

\* ------------------------------------------------------------ C1

\* C1: the race guard of DeleteTag.  When DeleteTag(t), t a tag that is not
\* empty, started at clock reading t0, executes a store.Delete(k) while k
\* holds an item that a concurrent Set(k, v, {Tag: t}) created strictly
\* after t0, that item stays in the mapping: DeleteTag never deletes an item
\* created after the call began.
C1_DeleteTagSparesNewer ==
    [][(/\ ScanDeleteStep("DeleteTag")
        /\ scan.tag # ""
        /\ scan.key \in DOMAIN store
        /\ store[scan.key].tag = scan.tag
        /\ CreateAfter(store[scan.key], scan.t))
       => (scan.key \in DOMAIN store' /\ store'[scan.key] = store[scan.key])]_vars

\* ------------------------------------------------------------ C2

\* C2: the race guard of Clear.  When Clear, started at clock reading t0,
\* executes a store.Delete(k) while k holds an item that a concurrent Set
\* created strictly after t0, that item stays in the mapping.
C2_ClearSparesNewer ==
    [][(/\ ScanDeleteStep("Clear")
        /\ scan.key \in DOMAIN store
        /\ CreateAfter(store[scan.key], scan.t))
       => (scan.key \in DOMAIN store' /\ store'[scan.key] = store[scan.key])]_vars

\* ------------------------------------------------------------ C3

\* C3: DeleteTag(t) run with no concurrent call.  Throughout the call an
\* item whose tag differs from t (untagged items included) keeps its key and
\* all its fields, and when the call is about to return no item with tag t
\* and createdAt not after the call's start timestamp is in the mapping.
C3_Frame ==
    (scan.op = "DeleteTag" /\ scan.pc # "idle")
        => \A k \in DOMAIN store :
            store[k].tag # scan.tag => (k \in DOMAIN store' /\ store'[k] = store[k])

C3_Result ==
    ScanDone("DeleteTag")
        => \A k \in DOMAIN store :
            store[k].tag = scan.tag => CreateAfter(store[k], scan.t)

C3_DeleteTagAlone == [][C3_Frame]_vars /\ []C3_Result

\* A DeleteTag("t") call that kept the untagged item of a key it has visited
\* is about to delete the key of an item tagged "t".
C3_Witness ==
    /\ scan.op = "DeleteTag" /\ scan.tag = "t" /\ scan.pc = "delete"
    /\ scan.key \in DOMAIN store /\ store[scan.key].tag = "t"
    /\ \E k \in DOMAIN store \ scan.todo : store[k].tag = ""

\* ------------------------------------------------------------ more steps, by name

\* The step is Set's store.Store.
SetStoreStep == setter.pc = "store" /\ setter'.pc = "done"

\* The step is Delete's store.Delete.
DeleteStep == deleter.pc = "idle" /\ deleter'.pc = "done"

\* The step is the store.Load of Get or GetStale.
ReadLoadStep == reader.pc = "load" /\ reader'.pc # "load"

\* The step is Get's expiry check, which decides Get's result.
GetCheckStep == reader.pc = "check" /\ reader'.pc = "return"

\* The step is GetStale's store.Load, which decides GetStale's result.
StaleLoadStep == reader.op = "GetStale" /\ reader.pc = "load" /\ reader'.pc = "return"

\* The result (value, true).
Found(value) == [found |-> TRUE, value |-> value, panic |-> FALSE]

\* ------------------------------------------------------------ C4

\* C4: an item stored by Set with options that give a Tag and no TTL (TTL
\* zero) does not expire: a Get[T] that loads it, T the type of its value,
\* returns (value, true) at every clock reading.
C4_TagOnlyNeverExpires ==
    (/\ reader.op = "Get" /\ reader.pc = "return"
     /\ reader.it # << >>
     /\ reader.it[1].opt # NilOpt
     /\ reader.it[1].opt[1].Tag # ""
     /\ reader.it[1].opt[1].TTL = 0
     /\ reader.T = reader.it[1].data.type)
        => reader.ret[1] = Found(reader.it[1].data)

\* ------------------------------------------------------------ C5

\* C5: round trip.  Set's store.Store puts the item it built under its key,
\* and while the store is enabled a Get[T](k) that returns while k holds an
\* item built by Set(k, v, nil), T the type of v, returns (v, true).
C5_SetStores ==
    SetStoreStep
        => (setter.key \in DOMAIN store' /\ store'[setter.key] = setter.it[1])

C5_GetFinds ==
    (/\ reader.op = "Get" /\ reader.pc = "return"
     /\ ~disabled
     /\ reader.key \in DOMAIN store
     /\ store[reader.key].opt = NilOpt
     /\ reader.T = store[reader.key].data.type)
        => reader.ret[1] = Found(store[reader.key].data)

C5_RoundTrip == [][C5_SetStores]_vars /\ []C5_GetFinds

\* A Get returned (v, true) for an item built without options at an earlier
\* clock reading.
C5_Witness ==
    /\ reader.op = "Get" /\ reader.pc = "return"
    /\ reader.key \in DOMAIN store
    /\ store[reader.key].opt = NilOpt
    /\ store[reader.key].createdAt < now
    /\ reader.ret[1] = Found(store[reader.key].data)

\* ------------------------------------------------------------ C6

\* C6: overwrite.  Set's store.Store replaces the whole item under its key
\* (value, tag, createdAt and expiresAt together) and touches no other key;
\* a Get or GetStale that finds a key returns the value of the item the key
\* holds, the one of the last Set; and Get decides on the expiry of that
\* item, so a re-Set expired entry is found again until its new expiry.
C6_Replaces ==
    SetStoreStep
        => /\ DOMAIN store' = DOMAIN store \cup {setter.key}
           /\ \A k \in DOMAIN store' :
                store'[k] = IF k = setter.key THEN setter.it[1] ELSE store[k]

C6_GetByCurrentExpiry ==
    (GetCheckStep /\ reader.key \in DOMAIN store
        /\ reader.T = store[reader.key].data.type)
        => (reader'.ret[1].found <=> ~Expired(store[reader.key], now))

C6_ReadsCurrent ==
    (reader.pc = "return" /\ reader.ret[1].found)
        => (reader.key \in DOMAIN store
            /\ reader.ret[1].value = store[reader.key].data)

C6_Overwrite == [][C6_Replaces /\ C6_GetByCurrentExpiry]_vars /\ []C6_ReadsCurrent

\* A Set has replaced an expired entry by an item of another value and tag
\* that is not expired.
C6_Witness ==
    /\ setter.pc = "done"
    /\ setter.old # << >>
    /\ setter.key \in DOMAIN store
    /\ setter.old[1].data # store[setter.key].data
    /\ setter.old[1].tag # store[setter.key].tag
    /\ Expired(setter.old[1], now)
    /\ ~Expired(store[setter.key], now)

\* ------------------------------------------------------------ C7

\* C7: expiry.  For an item stored with a TTL > 0, Get[T] (T the type of the
\* value) returns not found when its clock reading is strictly past
\* createdAt + TTL and (v, true) at every reading up to it; GetStale[T]
\* returns (v, true) for the item the key holds, expired or not.
C7_GetByTTL ==
    (/\ GetCheckStep
     /\ reader.it[1].opt # NilOpt
     /\ reader.it[1].opt[1].TTL > 0
     /\ reader.T = reader.it[1].data.type)
        => reader'.ret[1] =
            IF now > reader.it[1].createdAt + reader.it[1].opt[1].TTL
            THEN NotFound(reader.T)
            ELSE Found(reader.it[1].data)

C7_StaleIgnoresExpiry ==
    (/\ StaleLoadStep
     /\ reader.key \in DOMAIN store
     /\ reader.T = store[reader.key].data.type)
        => reader'.ret[1] = Found(store[reader.key].data)

C7_Expiry == [][C7_GetByTTL /\ C7_StaleIgnoresExpiry]_vars

\* A Get loaded an item stored with a TTL > 0 and returned not found.
C7_Witness ==
    /\ reader.op = "Get" /\ reader.pc = "return"
    /\ reader.it # << >>
    /\ reader.it[1].opt # NilOpt
    /\ reader.it[1].opt[1].TTL > 0
    /\ reader.ret[1] = NotFound(reader.T)

\* ------------------------------------------------------------ C8

\* C8: no TTL.  An item stored by Set(k, v, nil) never expires: at every
\* clock reading Get[T], T the type of v, returns (v, true) for it, and no
\* step of a GC pass removes or changes it.
C8_GetFinds ==
    (/\ GetCheckStep
     /\ reader.it[1].opt = NilOpt
     /\ reader.T = reader.it[1].data.type)
        => reader'.ret[1] = Found(reader.it[1].data)

C8_GCKeeps ==
    (scan.op = "GC" /\ scan.pc # "idle")
        => \A k \in DOMAIN store :
            store[k].opt = NilOpt => (k \in DOMAIN store' /\ store'[k] = store[k])

C8_NoTTL == [][C8_GetFinds /\ C8_GCKeeps]_vars

\* A GC pass has visited every key and an item stored without options at an
\* earlier clock reading is in the mapping.
C8_Witness ==
    /\ ScanDone("GC")
    /\ \E k \in DOMAIN store : store[k].opt = NilOpt /\ store[k].createdAt < now

\* ------------------------------------------------------------ C9

\* C9: the disable switch.  A Set called while the flag is set returns
\* without reaching store.Store and leaves the mapping unchanged, and a Get
\* or GetStale called while the flag is set returns not found, also for a
\* key that holds a live item.
C9_SetGated ==
    (disabled /\ setter.pc = "idle" /\ setter'.pc # "idle") => setter'.pc = "skip"

C9_SetFrame ==
    (setter.pc = "skip" \/ setter'.pc = "skip") => store' = store

C9_ReadsGated ==
    (disabled /\ reader.pc = "idle" /\ reader'.pc # "idle")
        => (reader'.pc = "return" /\ reader'.ret[1] = NotFound(reader'.T))

C9_DisableGates == [][C9_SetGated /\ C9_SetFrame /\ C9_ReadsGated]_vars

\* While the flag is set a read of a key that holds a live item returned
\* not found.
C9_Witness ==
    /\ disabled
    /\ reader.pc = "return"
    /\ reader.key \in DOMAIN store
    /\ ~Expired(store[reader.key], now)
    /\ reader.ret[1] = NotFound(reader.T)

\* ------------------------------------------------------------ C10

\* C10: disabling preserves the contents.  A step that changes the flag
\* leaves the mapping unchanged, and whatever the flag was before, a Get[T]
\* that returns while the store is enabled and its key holds an item that
\* is not expired, T the type of its value, returns (value, true).
C10_ToggleFrame == disabled' # disabled => store' = store

C10_GetAgain ==
    (/\ reader.op = "Get" /\ reader.pc = "return"
     /\ ~disabled
     /\ reader.key \in DOMAIN store
     /\ ~Expired(store[reader.key], now)
     /\ reader.T = store[reader.key].data.type)
        => reader.ret[1] = Found(store[reader.key].data)

C10_DisablePreserves == [][C10_ToggleFrame]_vars /\ []C10_GetAgain

\* The flag is set and the mapping holds an item that is not expired: no
\* Set stores while the flag is set, so the item was stored before.
C10_Witness ==
    /\ disabled
    /\ \E k \in DOMAIN store : ~Expired(store[k], now)

\* ------------------------------------------------------------ C11

\* C11 as claimed: a step of a GC pass at an unchanged clock reading leaves
\* the results of Get[T](k) and of GetStale[T](k) unchanged, for every key
\* and type.
C11_GCLeavesReads ==
    [][(scan.op = "GC" /\ scan.pc # "idle" /\ now' = now)
       => \A op \in {"Get", "GetStale"}, T \in Types, k \in Keys :
            ReadResult(op, T, k)' = ReadResult(op, T, k)]_vars

\* C11 as amended: a step of a GC pass at an unchanged clock reading leaves
\* the result of Get[T](k) unchanged for every key and type, and the result
\* of GetStale[T](k) unchanged for every key that does not hold an expired
\* item; for a key that holds an expired item GetStale either is unchanged
\* or, once GC has deleted the key, returns not found.
C11_GetUnchanged ==
    \A T \in Types, k \in Keys :
        ReadResult("Get", T, k)' = ReadResult("Get", T, k)

C11_StaleUnchanged ==
    \A T \in Types, k \in Keys :
        \/ ReadResult("GetStale", T, k)' = ReadResult("GetStale", T, k)
        \/ /\ k \in DOMAIN store
           /\ Expired(store[k], now)
           /\ ReadResult("GetStale", T, k)' = NotFound(T)

C11_GCLeavesGet ==
    [][(scan.op = "GC" /\ scan.pc # "idle" /\ now' = now)
       => (C11_GetUnchanged /\ C11_StaleUnchanged)]_vars

\* A GC pass is about to delete a key for which Get returns not found and
\* GetStale still returns the value.
C11_Witness ==
    /\ scan.op = "GC" /\ scan.pc = "delete"
    /\ ReadResult("Get", "int", scan.key) = NotFound("int")
    /\ ReadResult("GetStale", "int", scan.key).found

\* ------------------------------------------------------------ C12

\* C12: GC with no concurrent call.  The callback decides to delete a key
\* exactly when the item it holds is expired at that clock reading; a step
\* of the pass removes only such a key and leaves every other entry in
\* place with its fields; and when a pass ends at the clock reading it began
\* at, no entry is expired, so a second pass at that reading removes
\* nothing and leaves the mapping of the first.
C12_Decides ==
    (scan.op = "GC" /\ scan.pc = "range" /\ scan'.pc # "idle" /\ scan' # scan)
        => IF scan'.pc = "delete"
           THEN /\ scan'.key \in DOMAIN store
                /\ Expired(store[scan'.key], now)
           ELSE \A k \in scan.todo \ scan'.todo :
                    k \in DOMAIN store => ~Expired(store[k], now)

C12_Removes ==
    (scan.op = "GC" /\ scan.pc # "idle")
        => /\ DOMAIN store' \subseteq DOMAIN store
           /\ \A k \in DOMAIN store :
                IF ScanDeleteStep("GC") /\ k = scan.key
                THEN k \notin DOMAIN store' /\ Expired(store[k], now)
                ELSE k \in DOMAIN store' /\ store'[k] = store[k]

C12_SecondPassIdle ==
    (ScanDone("GC") /\ scan.t = now)
        => \A k \in DOMAIN store : ~Expired(store[k], now)

C12_GCIdempotent == [][C12_Decides /\ C12_Removes]_vars /\ []C12_SecondPassIdle

\* A GC pass that kept the live entry of a key it has visited is about to
\* delete the key of an expired entry, at the clock reading it began at.
C12_Witness ==
    /\ scan.op = "GC" /\ scan.pc = "delete" /\ scan.t = now
    /\ scan.key \in DOMAIN store /\ Expired(store[scan.key], now)
    /\ \E k \in DOMAIN store \ scan.todo : ~Expired(store[k], now)

\* ------------------------------------------------------------ C13

\* C13: a step of Get or GetStale leaves the mapping and the flag unchanged,
\* whether the store is enabled or disabled; when Get finds the item under
\* its key expired it returns not found, the item stays under the key, and
\* GetStale called next returns it.
C13_ReadsFrame ==
    reader' # reader => (store' = store /\ disabled' = disabled)

C13_ExpiredStays ==
    (GetCheckStep /\ Expired(reader.it[1], now))
        => /\ reader'.ret = <<NotFound(reader.T)>>
           /\ Load(store', reader.key) = reader.it
           /\ ReadResult("GetStale", reader.T, reader.key)'
                = Assert_T(reader.it[1], reader.T)

C13_ReadsNonMutating == [][C13_ReadsFrame /\ C13_ExpiredStays]_vars

\* Get has returned not found for an expired item, which is still under the
\* key and which GetStale returns.
C13_Witness ==
    /\ reader.op = "Get" /\ reader.pc = "return" /\ reader.it # << >>
    /\ reader.ret = <<NotFound(reader.T)>>
    /\ Load(store, reader.key) = reader.it
    /\ ReadResult("GetStale", reader.T, reader.key).found

\* ------------------------------------------------------------ C14

\* C14: a call of Get[T] or GetStale[T] never panics: when it returns, its
\* result is a value or not found, also when the item found under the key
\* holds a value of another type than T.
C14_MismatchNotFound ==
    reader.pc = "return" => ~reader.ret[1].panic

\* ------------------------------------------------------------ C15

\* C15: Delete(k) leaves k absent, so that Get and GetStale of k return not
\* found; it leaves the mapping unchanged when k was absent, and it leaves
\* the entry of every other key as it was.  A key that is absent stays
\* absent, and its reads not found, until a Set of that key stores.
C15_DeleteRemoves ==
    DeleteStep
        => /\ deleter'.key \in Keys
           /\ \A k \in Keys :
                k = deleter'.key
                    => /\ k \notin DOMAIN store'
                       /\ \A op \in {"Get", "GetStale"}, T \in Types :
                            ReadResult(op, T, k)' = NotFound(T)
                       /\ k \notin DOMAIN store => store' = store
                       /\ \A j \in Keys \ {k} : Load(store', j) = Load(store, j)

C15_AbsentUntilSet ==
    \A k \in Keys :
        (k \notin DOMAIN store /\ ~(SetStoreStep /\ setter.key = k))
            => /\ k \notin DOMAIN store'
               /\ \A op \in {"Get", "GetStale"}, T \in Types :
                    ReadResult(op, T, k)' = NotFound(T)

C15_Delete == [][C15_DeleteRemoves /\ C15_AbsentUntilSet]_vars

\* Delete has removed the entry of its key and another key holds an entry.
C15_Witness ==
    /\ deleter.pc = "done" /\ deleter.old # << >>
    /\ deleter.key \notin DOMAIN store
    /\ DOMAIN store # {}

\* ------------------------------------------------------------ C16

\* C16 as claimed, the bound on the passes after the signal: RunGCInterval
\* begins at most one GC pass after the cancellation.
C16_AtMostOnceMore == sweep.after <= 1

\* C16 as amended: RunGCInterval begins a GC pass only by taking a tick
\* from the ticker; once it runs and the cancellation is signalled it
\* eventually returns; and once it has returned it stays returned and no GC
\* pass of its is in progress.
C16_OnlyOnTicks ==
    (scan.pc = "idle" /\ scan'.pc # "idle")
        => /\ sweep.pc = "select" /\ sweep.tick
           /\ sweep'.pc = "gc" /\ ~sweep'.tick
           /\ scan'.op = "GC"

C16_ReturnedStays ==
    sweep.pc = "returned" => (sweep'.pc = "returned" /\ scan' = scan)

C16_NoPassAfterReturn == sweep.pc = "returned" => scan.pc = "idle"

C16_Returns == (sweep.done /\ sweep.pc # "idle") ~> (sweep.pc = "returned")

C16_SweepCancels ==
    /\ [][C16_OnlyOnTicks /\ C16_ReturnedStays]_vars
    /\ []C16_NoPassAfterReturn
    /\ C16_Returns

\* RunGCInterval has returned after the cancellation, having begun GC
\* passes after it, and an entry is gone from the mapping.
C16_Witness ==
    /\ sweep.pc = "returned" /\ sweep.done /\ sweep.after = MaxAfter
    /\ DOMAIN store # Keys

\* ------------------------------------------------------------ C17

\* C17: concurrent Set, Get, GetStale and Delete on one key.  Each call
\* acts on the mapping in one step: Set's store installs the whole item Set
\* built, Delete's delete leaves the key absent, a read loads what the key
\* holds at its load, and nothing else changes the mapping; so the key's
\* entry is always that of the last store or delete, and a read returns the
\* value of the one item it loaded or not found.  Every item in the mapping
\* or held by a call has the tag and expiresAt of its own options and
\* createdAt, never fields of two items.
C17_Whole(it) == it = NewItem(it.data, it.opt, it.createdAt)

C17_WholeItems ==
    /\ \A k \in DOMAIN store : C17_Whole(store[k])
    /\ reader.it # << >> => C17_Whole(reader.it[1])
    /\ (reader.pc = "return" /\ reader.ret[1].found)
            => (reader.it # << >> /\ reader.ret[1].value = reader.it[1].data)

C17_OneStepEach ==
    /\ SetStoreStep => /\ Load(store', setter.key) = setter.it
                       /\ setter'.old = Load(store, setter.key)
    /\ DeleteStep => /\ Load(store', deleter'.key) = << >>
                     /\ deleter'.old \in {Load(store, k) : k \in OneKey}
    /\ store' # store => (SetStoreStep \/ DeleteStep)
    /\ ReadLoadStep => reader'.it = Load(store, reader.key)
    /\ GetCheckStep => reader'.it = reader.it

C17_PerKeySerial == [][C17_OneStepEach]_vars /\ []C17_WholeItems

\* A Get holds the item it loaded, a concurrent Set has since replaced that
\* item by another, and a concurrent Delete has then removed the key.
C17_Witness ==
    /\ reader.op = "Get" /\ reader.pc = "check"
    /\ setter.pc = "done" /\ setter.key = reader.key
    /\ setter.old = reader.it
    /\ deleter.pc = "done" /\ deleter.key = reader.key
    /\ deleter.old # << >> /\ deleter.old # reader.it
    /\ reader.key \notin DOMAIN store

\* ------------------------------------------------------------ C18

\* C18: GC concurrent with Set.  When a GC callback deletes a key, the item
\* the key holds at that step is expired: an item that is not expired, such
\* as one Set installed after the callback's expiry check of the previous
\* item, stays in the mapping.
C18_GCSparesFresh ==
    [][(ScanDeleteStep("GC") /\ scan.key \in DOMAIN store
            /\ ~Expired(store[scan.key], now))
       => (scan.key \in DOMAIN store' /\ store'[scan.key] = store[scan.key])]_vars

\* ------------------------------------------------------------ C19

\* C19: Delete, DeleteTag, Clear and GC do not read the flag.  Whatever the
\* flag, also while the store is disabled, Delete's step leaves its key
\* absent, the callback of a scan decides to delete a key exactly when the
\* key holds an item its call hits, and the scan's delete leaves the key
\* absent.
C19_DeleteRuns ==
    DeleteStep => deleter'.key \notin DOMAIN store'

C19_ScanDecides ==
    (scan.pc = "range" /\ scan'.pc # "idle" /\ scan' # scan)
        => \A k \in Keys :
            (k = scan'.key \/ k \in scan.todo \ scan'.todo)
                => ((scan'.pc = "delete") <=> (k \in DOMAIN store /\ Hits(store[k])))

C19_ScanDeletes ==
    (scan.pc = "delete" /\ scan'.pc = "range") => scan.key \notin DOMAIN store'

C19_FlagGatesOnlySetAndReads ==
    [][C19_DeleteRuns /\ C19_ScanDecides /\ C19_ScanDeletes]_vars

\* While the store is disabled Delete has removed the entry of its key.
C19_Witness ==
    /\ disabled
    /\ deleter.pc = "done" /\ deleter.old # << >>
    /\ deleter.key \notin DOMAIN store

\* ------------------------------------------------------------ C20

\* C20: DeleteTag of src/unnamed/part_000 with no Set in progress.  When the
\* callback is passed an item that has the tag of the call, it decides to
\* delete the key exactly when the item was not created after the clock
\* reading the call took when it began.
C20_V0RemovesOlder ==
    [][(scan.op = "DeleteTagV0" /\ scan.pc = "range" /\ scan'.pc # "idle"
            /\ scan' # scan /\ setter = SetterIdle /\ scan.tag # "")
       => \A k \in DOMAIN store :
            ((k = scan'.key \/ k \in scan.todo \ scan'.todo)
                    /\ store[k].tag = scan.tag)
                => ((scan'.pc = "delete") <=> ~CreateAfter(store[k], scan.t))]_vars

====
